---- MODULE Spec2Model ----
(***************************************************************************)
(* A model of the epochs crate (src/src/lib.rs): conversions between       *)
(* numeric epoch values and chrono::NaiveDateTime.                         *)
(*                                                                         *)
(* Every function of the crate is pure, so the state machine is a caller   *)
(* that picks an input, calls one conversion and keeps the input and the   *)
(* result; a backward conversion is applied to the datetime that the       *)
(* forward call has just returned.                                         *)
(*                                                                         *)
(* TLC's integers are 32 bits wide, the crate computes on i64 and f64.     *)
(* An i64 (and every wider intermediate value) is therefore a signed       *)
(* decimal number held as limbs; an f64 is the dyadic rational n / 2^k it  *)
(* denotes, and every f64 operation rounds its exact result to 53          *)
(* significant bits, ties to even, as IEEE 754 does.                       *)
(***************************************************************************)
EXTENDS Integers, Sequences, FiniteSets, TLC

(***************************************************************************)
(* TLC evaluates an operator's argument each time the operator's body uses *)
(* it. With binds the value of e once and hands it to F, so that a result  *)
(* that is used several times is computed once.                            *)
(***************************************************************************)
With(e, F(_)) == CHOOSE r \in {F(v) : v \in {e}} : TRUE
With2(e1, e2, F(_, _)) == CHOOSE r \in {F(v, w) : v \in {e1}, w \in {e2}} : TRUE

(***************************************************************************)
(* Wide integers: [s |-> sign, m |-> limbs], little endian, base Base,     *)
(* without leading zero limbs; zero is [s |-> 0, m |-> <<>>]. The limb     *)
(* operations are written with quantifiers over the limb positions rather  *)
(* than by recursion along the limbs, so that TLC evaluates them in        *)
(* constant stack depth.                                                   *)
(***************************************************************************)
LimbBits == 15
Base == 32768

Max(a, b) == IF a >= b THEN a ELSE b
Min(a, b) == IF a <= b THEN a ELSE b

\* the greatest element of a non-empty set of integers
SetMax(S0) == With(S0, LAMBDA S : CHOOSE i \in S : \A j \in S : j <= i)

\* the limbs without leading zeros
MStrip(m0) ==
    With(m0, LAMBDA m :
        IF \A i \in 1..Len(m) : m[i] = 0 THEN <<>>
        ELSE SubSeq(m, 1, SetMax({i \in 1..Len(m) : m[i] # 0})))

MCmp(a0, b0) ==
    With2(a0, b0, LAMBDA a, b :
        IF Len(a) < Len(b) THEN -1
        ELSE IF Len(a) > Len(b) THEN 1
        ELSE IF a = b THEN 0
        ELSE With(SetMax({i \in 1..Len(a) : a[i] # b[i]}), LAMBDA i :
                 IF a[i] < b[i] THEN -1 ELSE 1))

MLimb(a, i) == IF 1 <= i /\ i <= Len(a) THEN a[i] ELSE 0

\* the carry into limb i of the limbwise sums s: some lower limb overflows
\* and every limb between is full
MCarry(s, i) ==
    IF \E j \in 1..(i - 1) :
           s[j] >= Base /\ \A l \in (j + 1)..(i - 1) : s[l] = Base - 1
    THEN 1 ELSE 0

MAdd(a0, b0) ==
    With2(a0, b0, LAMBDA a, b :
        With(SubSeq([i \in 1..(Max(Len(a), Len(b)) + 1) |->
                         MLimb(a, i) + MLimb(b, i)],
                    1, Max(Len(a), Len(b)) + 1),
             LAMBDA s :
            MStrip([i \in 1..Len(s) |-> (s[i] + MCarry(s, i)) % Base])))

\* the borrow from limb i of the limbwise differences d: some lower limb is
\* negative and every limb between is zero
MBorrow(d, i) ==
    IF \E j \in 1..(i - 1) : d[j] < 0 /\ \A l \in (j + 1)..(i - 1) : d[l] = 0
    THEN 1 ELSE 0

\* a - b for a >= b
MSub(a0, b0) ==
    With2(a0, b0, LAMBDA a, b :
        With(SubSeq([i \in 1..Len(a) |-> a[i] - MLimb(b, i)], 1, Len(a)),
             LAMBDA d :
            MStrip([i \in 1..Len(d) |-> ((d[i] - MBorrow(d, i)) + Base) % Base])))

\* a * k for a limb 0 <= k < Base
MMulSmall(a0, k0) ==
    With2(a0, k0, LAMBDA a, k :
        MAdd(SubSeq([i \in 1..Len(a) |-> (a[i] * k) % Base], 1, Len(a)),
             <<0>> \o SubSeq([i \in 1..Len(a) |-> (a[i] * k) \div Base], 1, Len(a))))

\* a * 2^j
MShl(a0, j0) ==
    With2(a0, j0, LAMBDA a, j :
        With(2 ^ (j % LimbBits), LAMBDA f :
            MStrip(SubSeq([i \in 1..(j \div LimbBits) |-> 0], 1, j \div LimbBits)
                   \o SubSeq([i \in 1..(Len(a) + 1) |->
                                  ((MLimb(a, i) * f) % Base)
                                  + ((MLimb(a, i - 1) * f) \div Base)],
                             1, Len(a) + 1))))

\* a \div 2^j
MShr(a0, j0) ==
    With2(a0, j0, LAMBDA a, j :
        With2(j \div LimbBits, 2 ^ (j % LimbBits), LAMBDA q, f :
            IF q >= Len(a) THEN <<>>
            ELSE MStrip(SubSeq([i \in 1..(Len(a) - q) |->
                                    (a[i + q] \div f)
                                    + ((MLimb(a, i + q + 1) % f) * (Base \div f))],
                               1, Len(a) - q))))

\* a % 2^j
MLowBits(a0, j0) ==
    With2(a0, j0, LAMBDA a, j :
        With2(j \div LimbBits, 2 ^ (j % LimbBits), LAMBDA q, f :
            IF q >= Len(a) THEN a
            ELSE MStrip(SubSeq(a, 1, q) \o <<a[q + 1] % f>>)))

\* the number of bits of a
BitLen(a0) ==
    With(a0, LAMBDA a :
        IF a = <<>> THEN 0
        ELSE (Len(a) - 1) * LimbBits
             + (CHOOSE j \in 1..LimbBits :
                    2 ^ (j - 1) <= a[Len(a)] /\ a[Len(a)] < 2 ^ j))

\* the sum of a * b[j] * Base^(j-1) for j in lo..hi, by halves
RECURSIVE MMulRange(_, _, _, _)
MMulRange(a, b, lo, hi) ==
    IF lo = hi
    THEN SubSeq([i \in 1..(lo - 1) |-> 0], 1, lo - 1) \o MMulSmall(a, b[lo])
    ELSE MAdd(MMulRange(a, b, lo, (lo + hi) \div 2),
              MMulRange(a, b, (lo + hi) \div 2 + 1, hi))

MMul(a0, b0) ==
    With2(a0, b0, LAMBDA a, b :
        IF a = <<>> \/ b = <<>> THEN <<>> ELSE MStrip(MMulRange(a, b, 1, Len(b))))

\* One step of long division by b, whose top limb is at least Base / 2: the
\* remainder r takes the next limb of the dividend, and the quotient digit is
\* at most two below its estimate from the top limbs (Knuth, 4.3.1 D).
MDivStep(limb, b, st0) ==
    With(st0, LAMBDA st :
    With(MStrip(<<limb>> \o st[2]), LAMBDA r :
    With(Min(Base - 1,
             ((MLimb(r, Len(b) + 1) * Base) + MLimb(r, Len(b))) \div b[Len(b)]),
         LAMBDA est :
    With(SetMax({c \in Max(0, est - 2)..est : MCmp(MMulSmall(b, c), r) <= 0}),
         LAMBDA dg :
        <<(<<dg>> \o st[1]), MSub(r, MMulSmall(b, dg))>>))))

\* the steps for the limbs hi down to lo of a, by halves
RECURSIVE MDivRange(_, _, _, _, _)
MDivRange(a, b, hi, lo, st) ==
    IF hi = lo THEN MDivStep(a[hi], b, st)
    ELSE With(MDivRange(a, b, hi, (hi + lo) \div 2 + 1, st), LAMBDA s1 :
             MDivRange(a, b, (hi + lo) \div 2, lo, s1))

\* long division of a by b # 0: <<quotient, remainder>>
MDivMod(a0, b0) ==
    With2(a0, b0, LAMBDA a, b :
        IF MCmp(a, b) < 0 THEN <<(<<>>), a>>
        ELSE With(LimbBits - BitLen(<<b[Len(b)]>>), LAMBDA sh :
             With2(MShl(a, sh), MShl(b, sh), LAMBDA an, bn :
             With(MDivRange(an, bn, Len(an), 1, <<(<<>>), (<<>>)>>), LAMBDA qr :
                 <<MStrip(qr[1]), MShr(qr[2], sh)>>))))

Zero == [s |-> 0, m |-> <<>>]
Mk(sign, mag0) ==
    With(mag0, LAMBDA mag : IF mag = <<>> THEN Zero ELSE [s |-> sign, m |-> mag])

\* a non-negative TLC integer as limbs
MFromNat(n0) ==
    With(n0, LAMBDA n :
        MStrip(<<n % Base, (n \div Base) % Base, n \div (Base * Base)>>))

Int2Big(i0) ==
    With(i0, LAMBDA i :
        IF i = 0 THEN Zero
        ELSE IF i > 0 THEN [s |-> 1, m |-> MFromNat(i)]
        ELSE [s |-> -1, m |-> MFromNat(-i)])

\* a decimal literal written in groups of four digits, high group first:
\* Dec(<<116, 4447, 3600>>) is 11_644_473_600
RECURSIVE MFromDec(_, _, _)
MFromDec(groups, i, acc) ==
    IF i > Len(groups) THEN acc
    ELSE With(MAdd(MMulSmall(acc, 10000), MFromNat(groups[i])), LAMBDA x :
             MFromDec(groups, i + 1, x))

Dec(groups) == Mk(1, MFromDec(groups, 1, <<>>))

\* a wide integer known to fit 32 bits, as a TLC integer
MToNat(m) == MLimb(m, 1) + (MLimb(m, 2) * Base) + (MLimb(m, 3) * Base * Base)

Big2Int(a0) == With(a0, LAMBDA a : a.s * MToNat(a.m))

BNeg(a0) == With(a0, LAMBDA a : Mk(-a.s, a.m))

BCmp(a0, b0) ==
    With2(a0, b0, LAMBDA a, b :
        IF a.s # b.s THEN (IF a.s < b.s THEN -1 ELSE 1)
        ELSE IF a.s = 0 THEN 0
        ELSE a.s * MCmp(a.m, b.m))

BLt(a, b) == BCmp(a, b) < 0
BLe(a, b) == BCmp(a, b) <= 0

BAdd(a0, b0) ==
    With2(a0, b0, LAMBDA a, b :
        IF a.s = 0 THEN b
        ELSE IF b.s = 0 THEN a
        ELSE IF a.s = b.s THEN Mk(a.s, MAdd(a.m, b.m))
        ELSE With(MCmp(a.m, b.m), LAMBDA c :
                 IF c = 0 THEN Zero
                 ELSE IF c > 0 THEN Mk(a.s, MSub(a.m, b.m))
                 ELSE Mk(b.s, MSub(b.m, a.m))))

BSub(a, b) == BAdd(a, BNeg(b))
BMul(a0, b0) == With2(a0, b0, LAMBDA a, b : Mk(a.s * b.s, MMul(a.m, b.m)))
\* a * k for a TLC integer k >= 0
BMulSmall(a0, k) == With(a0, LAMBDA a : Mk(a.s, MMul(a.m, MFromNat(k))))

\* Rust's / and % on integers: the quotient truncates toward zero and the
\* remainder has the sign of the dividend
TruncDiv(a0, b0) ==
    With2(a0, b0, LAMBDA a, b : Mk(a.s * b.s, MDivMod(a.m, b.m)[1]))
TruncRem(a0, b0) ==
    With2(a0, b0, LAMBDA a, b : Mk(a.s, MDivMod(a.m, b.m)[2]))

\* div_mod_floor for a positive divisor: the quotient rounds toward minus
\* infinity and the remainder is never negative
FloorDiv(a0, b0) ==
    With2(a0, b0, LAMBDA a, b :
        With(MDivMod(a.m, b.m), LAMBDA qr :
            IF a.s < 0 /\ qr[2] # <<>>
            THEN BNeg(Mk(1, MAdd(qr[1], <<1>>)))
            ELSE Mk(a.s, qr[1])))
FloorMod(a0, b0) ==
    With2(a0, b0, LAMBDA a, b :
        With(MDivMod(a.m, b.m)[2], LAMBDA r :
            IF a.s < 0 /\ r # <<>> THEN Mk(1, MSub(b.m, r)) ELSE Mk(1, r)))

One == Int2Big(1)

(***************************************************************************)
(* Rust's fixed-width integers.                                            *)
(***************************************************************************)
I64_MAX == Dec(<<922, 3372, 0368, 5477, 5807>>)
I64_MIN == BSub(BNeg(I64_MAX), One)
I32_MAX == Dec(<<21, 4748, 3647>>)
I32_MIN == BSub(BNeg(I32_MAX), One)
TwoPow32 == Dec(<<42, 9496, 7296>>)

FitsI64(a0) == With(a0, LAMBDA a : BLe(I64_MIN, a) /\ BLe(a, I64_MAX))
FitsI32(a0) == With(a0, LAMBDA a : BLe(I32_MIN, a) /\ BLe(a, I32_MAX))

\* `as u32`: the low 32 bits
AsU32(a) == FloorMod(a, TwoPow32)

\* `as i32`: the low 32 bits, read as a signed number
AsI32(a) ==
    With(AsU32(a), LAMBDA u : IF BLe(u, I32_MAX) THEN u ELSE BSub(u, TwoPow32))

(***************************************************************************)
(* Option<T>, with the third way a call can end: a panic.                  *)
(***************************************************************************)
None == [tag |-> "None"]
Panic == [tag |-> "Panic"]
Some(v) == [tag |-> "Some", val |-> v]
IsSome(o) == o.tag = "Some"
IsNone(o) == o.tag = "None"
IsPanic(o) == o.tag = "Panic"

(***************************************************************************)
(* chrono's NaiveDate and NaiveDateTime, by their documented contract.     *)
(* A NaiveDateTime is [year, month, day, secs, nanos]: the civil date, the *)
(* seconds since midnight and the nanoseconds of the second.               *)
(***************************************************************************)
MIN_YEAR == -262144
MAX_YEAR == 262143

IsLeapYear(y) == y % 4 = 0 /\ (y % 100 # 0 \/ y % 400 = 0)

MonthLength(y, m) ==
    IF m = 2 THEN (IF IsLeapYear(y) THEN 29 ELSE 28)
    ELSE IF m \in {4, 6, 9, 11} THEN 30 ELSE 31

\* days from 1970-01-01 to the civil date y-m-d
DaysFromCivil(y, m, d) ==
    LET y2 == IF m <= 2 THEN y - 1 ELSE y
        era == y2 \div 400
        yoe == y2 - era * 400
        mp == IF m > 2 THEN m - 3 ELSE m + 9
        doy == (153 * mp + 2) \div 5 + d - 1
        doe == yoe * 365 + yoe \div 4 - yoe \div 100 + doy
    IN era * 146097 + doe - 719468

\* the civil date z days after 1970-01-01
CivilFromDays(z) ==
    LET z2 == z + 719468
        era == z2 \div 146097
        doe == z2 - era * 146097
        yoe == (doe - doe \div 1460 + doe \div 36524 - doe \div 146096) \div 365
        doy == doe - (365 * yoe + yoe \div 4 - yoe \div 100)
        mp == (5 * doy + 2) \div 153
        d == doy - (153 * mp + 2) \div 5 + 1
        m == IF mp < 10 THEN mp + 3 ELSE mp - 9
    IN [year |-> (IF m <= 2 THEN yoe + era * 400 + 1 ELSE yoe + era * 400),
        month |-> m, day |-> d]

\* NaiveDate::MIN and NaiveDate::MAX as days from 1970-01-01
MIN_DATE_DAYS == DaysFromCivil(MIN_YEAR, 1, 1)
MAX_DATE_DAYS == DaysFromCivil(MAX_YEAR, 12, 31)

\* NaiveDate::from_ymd_opt
from_ymd_opt(y, m, d) ==
    IF /\ MIN_YEAR <= y /\ y <= MAX_YEAR
       /\ 1 <= m /\ m <= 12
       /\ 1 <= d /\ d <= MonthLength(y, m)
    THEN Some([year |-> y, month |-> m, day |-> d])
    ELSE None

\* NaiveDate::and_hms(0, 0, 0)
Midnight(date) ==
    [year |-> date.year, month |-> date.month, day |-> date.day,
     secs |-> 0, nanos |-> 0]

\* NaiveDate::pred: the previous day; panics on the first representable date
pred(date) ==
    With(DaysFromCivil(date.year, date.month, date.day), LAMBDA z :
        IF z = MIN_DATE_DAYS THEN Panic ELSE Some(CivilFromDays(z - 1)))

SECS_PER_DAY == Int2Big(86400)
NANOS_PER_SEC == Dec(<<10, 0000, 0000>>)
DAYS_TO_CE == Int2Big(719163)

\* from_num_days_from_ce_opt without its range check: C3_OutOfRangeIsNone
\* tells it from the checked one
from_num_days_from_ce_unchecked(dce) ==
    Some(CivilFromDays(Big2Int(BSub(dce, DAYS_TO_CE))))

\* NaiveDate::from_num_days_from_ce_opt
from_num_days_from_ce_opt(dce) ==
    With(BSub(dce, DAYS_TO_CE), LAMBDA z :
        IF BLe(Int2Big(MIN_DATE_DAYS), z) /\ BLe(z, Int2Big(MAX_DATE_DAYS))
        THEN Some(CivilFromDays(Big2Int(z)))
        ELSE None)

\* NaiveTime::from_num_seconds_from_midnight_opt
from_num_seconds_from_midnight_opt(secs0, nano0) ==
    With2(secs0, nano0, LAMBDA secs, nano :
        IF BLt(secs, SECS_PER_DAY) /\ BLt(nano, BMulSmall(NANOS_PER_SEC, 2))
        THEN Some([secs |-> Big2Int(secs), nanos |-> Big2Int(nano)])
        ELSE None)

\* NaiveDateTime::from_timestamp_opt(secs: i64, nsecs: u32)
from_timestamp_opt(t0, n0) ==
    With2(t0, n0, LAMBDA t, n :
    With(FloorDiv(t, SECS_PER_DAY), LAMBDA days :
    With2(IF FitsI32(days) /\ FitsI32(BAdd(days, DAYS_TO_CE))
          THEN from_num_days_from_ce_opt(BAdd(days, DAYS_TO_CE))
          ELSE None,
          from_num_seconds_from_midnight_opt(FloorMod(t, SECS_PER_DAY), n),
          LAMBDA date, time :
        IF IsSome(date) /\ IsSome(time)
        THEN Some([year |-> date.val.year, month |-> date.val.month,
                   day |-> date.val.day,
                   secs |-> time.val.secs, nanos |-> time.val.nanos])
        ELSE None)))

\* NaiveDateTime::timestamp: whole seconds since 1970-01-01 00:00:00
timestamp(ndt) ==
    BAdd(BMulSmall(Int2Big(DaysFromCivil(ndt.year, ndt.month, ndt.day)), 86400),
         Int2Big(ndt.secs))

\* NaiveDateTime::timestamp_subsec_nanos
timestamp_subsec_nanos(ndt) == Int2Big(ndt.nanos)

(***************************************************************************)
(* epoch2time (lib.rs 380-385)                                             *)
(***************************************************************************)
checked_add(a, b) ==
    With(BAdd(a, b), LAMBDA r : IF FitsI64(r) THEN Some(r) ELSE None)

epoch2time(x, d, s) ==
    With2(TruncDiv(x, d),
          AsU32(BMul(TruncRem(x, d), TruncDiv(NANOS_PER_SEC, d))),
          LAMBDA q, n :
        With(checked_add(q, s), LAMBDA t :
            IF IsNone(t) THEN None ELSE from_timestamp_opt(t.val, n)))

(***************************************************************************)
(* f64. A finite double is [n |-> wide integer, k |-> Nat], denoting       *)
(* n / 2^k with at most 53 significant bits in n. The values this crate    *)
(* computes stay far inside the exponent range, so only the rounding of    *)
(* the significand is modelled.                                            *)
(***************************************************************************)
MANTISSA_DIGITS == 53
\* n / 2^k cut to its sh high bits less, rounded to nearest, ties to even
RoundShift(n, k, sh) ==
    With2(MShr(n.m, sh), MCmp(MLowBits(n.m, sh), MShl(<<1>>, sh - 1)),
          LAMBDA q0, c :
        With(IF c > 0 \/ (c = 0 /\ q0[1] % 2 = 1) THEN MAdd(q0, <<1>>) ELSE q0,
             LAMBDA q :
            IF k >= sh
            THEN [n |-> Mk(n.s, q), k |-> k - sh]
            ELSE [n |-> Mk(n.s, MShl(q, sh - k)), k |-> 0]))

\* the double nearest to n / 2^k, ties to even
Round53(n0, k0) ==
    With2(n0, k0, LAMBDA n, k :
        IF BitLen(n.m) <= MANTISSA_DIGITS THEN [n |-> n, k |-> k]
        ELSE RoundShift(n, k, BitLen(n.m) - MANTISSA_DIGITS))

\* `x as f64` for an integer x
IntToF64(x) == Round53(x, 0)

FNeg(a0) == With(a0, LAMBDA a : [n |-> BNeg(a.n), k |-> a.k])

\* a * 2^j
BShl(a0, j) == With(a0, LAMBDA a : Mk(a.s, MShl(a.m, j)))

FAdd(a0, b0) ==
    With2(a0, b0, LAMBDA a, b :
        Round53(BAdd(BShl(a.n, Max(a.k, b.k) - a.k),
                     BShl(b.n, Max(a.k, b.k) - b.k)),
                Max(a.k, b.k)))

FSub(a, b) == FAdd(a, FNeg(b))

FMul(a0, b0) ==
    With2(a0, b0, LAMBDA a, b : Round53(BMul(a.n, b.n), a.k + b.k))

\* a / b for b # 0: the quotient is cut below its 55th bit and the bit under
\* it records whether anything was cut off, which rounds as the exact
\* quotient does
FDiv(a0, b0) ==
    With2(a0, b0, LAMBDA a, b :
        IF a.n.s = 0 THEN [n |-> Zero, k |-> 0]
        ELSE With2(MShl(a.n.m, b.k), MShl(b.n.m, a.k), LAMBDA num, den :
             With(Max(0, MANTISSA_DIGITS + 3 + BitLen(den) - BitLen(num)),
                  LAMBDA e :
             With(MDivMod(MShl(num, e), den), LAMBDA qr :
                 Round53(Mk(a.n.s * b.n.s,
                            MAdd(MShl(qr[1], 1),
                                 IF qr[2] = <<>> THEN <<>> ELSE <<1>>)),
                         e + 1)))))

\* `a as i64`: truncates toward zero and saturates
F64ToI64(a0) ==
    With(a0, LAMBDA a :
        With(Mk(a.n.s, MShr(a.n.m, a.k)), LAMBDA t :
            IF BLt(I64_MAX, t) THEN I64_MAX
            ELSE IF BLt(t, I64_MIN) THEN I64_MIN
            ELSE t))

(***************************************************************************)
(* time2epoch (lib.rs 390-397)                                             *)
(***************************************************************************)
time2epoch(ndt, m, s) ==
    With(IntToF64(timestamp_subsec_nanos(ndt)), LAMBDA n :
    With(FDiv(n, IntToF64(NANOS_PER_SEC)), LAMBDA q :
    With(IntToF64(timestamp(ndt)), LAMBDA t :
    With2(IntToF64(s), IntToF64(m), LAMBDA sf, mf :
        F64ToI64(FMul(mf, FSub(FAdd(t, q), sf)))))))

(***************************************************************************)
(* chrono::Duration, held as a whole number of milliseconds: every         *)
(* duration this crate builds is one.                                      *)
(***************************************************************************)
MILLIS_PER_SEC == 1000

\* Duration::seconds panics outside +-(i64::MAX / 1000) seconds
DurationSeconds(secs0) ==
    With2(secs0, TruncDiv(I64_MAX, Int2Big(MILLIS_PER_SEC)), LAMBDA secs, lim :
        IF BLt(secs, BNeg(lim)) \/ BLt(lim, secs)
        THEN Panic
        ELSE Some(BMulSmall(secs, MILLIS_PER_SEC)))

\* Duration::days: days * 86_400 seconds; panics when that overflows i64 or
\* Duration::seconds does
DurationDays(days0) ==
    With(BMul(days0, SECS_PER_DAY), LAMBDA secs :
        IF FitsI64(secs) THEN DurationSeconds(secs) ELSE Panic)

\* Duration::milliseconds takes every i64
DurationMilliseconds(ms) == Some(ms)

\* NaiveDateTime::checked_add_signed: None outside the representable dates
checked_add_signed(ndt0, dur0) ==
    With2(ndt0, dur0, LAMBDA ndt, dur :
    With(BAdd(BMulSmall(timestamp(ndt), MILLIS_PER_SEC), dur), LAMBDA total :
    With(ndt.nanos + Big2Int(FloorMod(total, Int2Big(MILLIS_PER_SEC))) * 1000000,
         LAMBDA frac :
        from_timestamp_opt(
            BAdd(FloorDiv(total, Int2Big(MILLIS_PER_SEC)), Int2Big(frac \div 1000000000)),
            Int2Big(frac % 1000000000)))))

\* NaiveDateTime + Duration: panics where checked_add_signed gives None
AddSigned(ndt, dur) ==
    With(checked_add_signed(ndt, dur), LAMBDA r : IF IsSome(r) THEN r ELSE Panic)

\* Datelike::with_year: None when the year is unrepresentable or the day
\* does not exist in that year's month
with_year(ndt0, y0) ==
    With2(ndt0, y0, LAMBDA ndt, y :
        IF BLe(Int2Big(MIN_YEAR), y) /\ BLe(y, Int2Big(MAX_YEAR))
        THEN With(from_ymd_opt(Big2Int(y), ndt.month, ndt.day), LAMBDA d :
                 IF IsSome(d) THEN Some([ndt EXCEPT !.year = Big2Int(y)]) ELSE None)
        ELSE None)

\* Timelike::hour, minute, second
hour(ndt) == ndt.secs \div 3600
minute(ndt) == (ndt.secs \div 60) % 60
second(ndt) == ndt.secs % 60

(***************************************************************************)
(* ndays_in_month, plus_month, plus_months (lib.rs 406-437)                *)
(***************************************************************************)
\* ndays_in_month without the case of December, which then asks for the
\* first day of a thirteenth month: C8_GregorianLength tells it from
\* ndays_in_month
ndays_in_month_NoDecember(year, month) ==
    With(from_ymd_opt(year, month + 1, 1), LAMBDA d :
        IF IsNone(d) THEN None
        ELSE With(pred(d.val), LAMBDA p :
                 IF IsSome(p) THEN Some(p.val.day) ELSE p))

ndays_in_month(year, month) ==
    With(IF month = 12 THEN from_ymd_opt(year + 1, 1, 1)
                       ELSE from_ymd_opt(year, month + 1, 1),
         LAMBDA d :
        IF IsNone(d) THEN None
        ELSE With(pred(d.val), LAMBDA p :
                 IF IsSome(p) THEN Some(p.val.day) ELSE p))

plus_month(ndt0) ==
    With(ndt0, LAMBDA ndt :
        With(ndays_in_month(ndt.year, ndt.month), LAMBDA days :
            IF IsSome(days)
            THEN AddSigned(ndt, DurationDays(Int2Big(days.val)).val)
            ELSE days))

\* for _i in 0..months { ndt = plus_month(ndt)?; }: the result and the number
\* of calls of plus_month
RECURSIVE PlusMonthLoop(_, _, _)
PlusMonthLoop(ndt, left, calls) ==
    IF left <= 0 THEN [out |-> Some(ndt), steps |-> calls]
    ELSE With(plus_month(ndt), LAMBDA r :
             IF IsSome(r) THEN PlusMonthLoop(r.val, left - 1, calls + 1)
                          ELSE [out |-> r, steps |-> calls + 1])

\* ndt.year() + years on i32: with overflow checks the sum panics when it
\* overflows, without them it wraps
YearSum(year, years, checks) ==
    With(BAdd(Int2Big(year), years), LAMBDA sum :
        IF FitsI32(sum) THEN Some(sum)
        ELSE IF checks THEN Panic
        ELSE Some(AsI32(sum)))

\* plus_months whose loop takes all the months, not the months left over by
\* the years: C9_TwelveMonthsIsOneYear tells it from plus_months_run
plus_months_run_AllMonths(ndt0, months0, checks) ==
    With2(ndt0, months0, LAMBDA ndt, months :
    With(YearSum(ndt.year, AsI32(TruncDiv(months, Int2Big(12))), checks),
         LAMBDA sum :
        IF IsPanic(sum) THEN [out |-> Panic, steps |-> 0]
        ELSE With(with_year(ndt, sum.val), LAMBDA start :
                 IF IsNone(start) THEN [out |-> None, steps |-> 0]
                 ELSE PlusMonthLoop(start.val, Big2Int(months), 0))))

plus_months_run(ndt0, months0, checks) ==
    With2(ndt0, months0, LAMBDA ndt, months :
    With2(AsI32(TruncDiv(months, Int2Big(12))),
          Big2Int(TruncRem(months, Int2Big(12))),
          LAMBDA years, rest :
    With(YearSum(ndt.year, years, checks), LAMBDA sum :
        IF IsPanic(sum) THEN [out |-> Panic, steps |-> 0]
        ELSE With(with_year(ndt, sum.val), LAMBDA start :
                 IF IsNone(start) THEN [out |-> None, steps |-> 0]
                 ELSE PlusMonthLoop(start.val, rest, 0)))))

plus_months(ndt, months, checks) == plus_months_run(ndt, months, checks).out

(***************************************************************************)
(* google_calendar, to_google_calendar (lib.rs 97-137)                     *)
(***************************************************************************)
GOOGLE_EPOCH == Midnight(from_ymd_opt(1969, 12, 31).val)

google_calendar(num0, checks) ==
    With(num0, LAMBDA num :
    With2(TruncDiv(num, SECS_PER_DAY), TruncRem(num, SECS_PER_DAY),
          LAMBDA total_days, seconds :
    With2(TruncDiv(total_days, Int2Big(32)), TruncRem(total_days, Int2Big(32)),
          LAMBDA months, days :
    With(AddSigned(GOOGLE_EPOCH, DurationDays(days).val), LAMBDA first :
        IF ~IsSome(first) THEN first
        ELSE With(plus_months(first.val, months, checks), LAMBDA second_ :
                 IF ~IsSome(second_) THEN second_
                 ELSE AddSigned(second_.val, DurationSeconds(seconds).val))))))

to_google_calendar(ndt0) ==
    With(ndt0, LAMBDA ndt :
        With(Int2Big(((ndt.year - 1970) * 12 + (ndt.month - 1)) * 32 + ndt.day),
             LAMBDA d :
            BAdd(BMulSmall(
                     BAdd(BMulSmall(BAdd(BMulSmall(d, 24), Int2Big(hour(ndt))), 60),
                          Int2Big(minute(ndt))),
                     60),
                 Int2Big(second(ndt)))))

(***************************************************************************)
(* icq (lib.rs 9-11, 147-159)                                              *)
(***************************************************************************)
MAX_DAYS == TruncDiv(I64_MAX, Dec(<<8640, 0000>>))
MILLIS_PER_DAY == IntToF64(Dec(<<8640, 0000>>))
ICQ_EPOCH == Midnight(from_ymd_opt(1899, 12, 30).val)

icq(days0) ==
    With(days0, LAMBDA days :
    With(F64ToI64(days), LAMBDA intdays :
        IF BLt(MAX_DAYS, intdays) THEN None
        ELSE With2(F64ToI64(FMul(FSub(days, IntToF64(intdays)), MILLIS_PER_DAY)),
                   DurationDays(intdays),
                   LAMBDA milliseconds, whole :
                 IF IsPanic(whole) THEN Panic
                 ELSE With(checked_add_signed(ICQ_EPOCH, whole.val), LAMBDA first :
                          IF IsNone(first) THEN None
                          ELSE checked_add_signed(
                                   first.val,
                                   DurationMilliseconds(milliseconds).val)))))

\* Duration::num_milliseconds of ndt - ICQ_EPOCH: the whole milliseconds,
\* truncated toward zero
MillisecondsSince(ndt, epoch) ==
    TruncDiv(BAdd(BMul(BSub(timestamp(ndt), timestamp(epoch)), NANOS_PER_SEC),
                  BSub(timestamp_subsec_nanos(ndt), timestamp_subsec_nanos(epoch))),
             Dec(<<100, 0000>>))

to_icq(ndt) == FDiv(IntToF64(MillisecondsSince(ndt, ICQ_EPOCH)), MILLIS_PER_DAY)

(***************************************************************************)
(* The uniform formats (lib.rs 21-376): each is epoch2time and time2epoch  *)
(* with the format's divisor and shift.                                    *)
(***************************************************************************)
apfs(num) == epoch2time(num, Dec(<<10, 0000, 0000>>), Zero)
to_apfs(ndt) == time2epoch(ndt, Dec(<<10, 0000, 0000>>), Zero)

chrome(num) == epoch2time(num, Dec(<<100, 0000>>), BNeg(Dec(<<116, 4447, 3600>>)))
to_chrome(ndt) == time2epoch(ndt, Dec(<<100, 0000>>), BNeg(Dec(<<116, 4447, 3600>>)))

cocoa(num) == epoch2time(num, One, Dec(<<9, 7830, 7200>>))
to_cocoa(ndt) == time2epoch(ndt, One, Dec(<<9, 7830, 7200>>))

java(num) == epoch2time(num, Dec(<<1000>>), Zero)
to_java(ndt) == time2epoch(ndt, Dec(<<1000>>), Zero)

mozilla(num) == epoch2time(num, Dec(<<100, 0000>>), Zero)
to_mozilla(ndt) == time2epoch(ndt, Dec(<<100, 0000>>), Zero)

symbian(num) == epoch2time(num, Dec(<<100, 0000>>), BNeg(Dec(<<621, 6721, 9200>>)))
to_symbian(ndt) == time2epoch(ndt, Dec(<<100, 0000>>), BNeg(Dec(<<621, 6721, 9200>>)))

unix(num) == epoch2time(num, One, Zero)
to_unix(ndt) == time2epoch(ndt, One, Zero)

\* uuid_v1 with the zero instant a day late, 1582-10-16: C2_ReferenceInstant
\* tells it from uuid_v1
uuid_v1_DayLate(num) ==
    epoch2time(num, Dec(<<1000, 0000>>), BNeg(Dec(<<122, 1920, 6400>>)))

uuid_v1(num) == epoch2time(num, Dec(<<1000, 0000>>), BNeg(Dec(<<122, 1929, 2800>>)))
to_uuid_v1(ndt) == time2epoch(ndt, Dec(<<1000, 0000>>), BNeg(Dec(<<122, 1929, 2800>>)))

windows_date(num) ==
    epoch2time(num, Dec(<<1000, 0000>>), BNeg(Dec(<<621, 3559, 6800>>)))
to_windows_date(ndt) ==
    time2epoch(ndt, Dec(<<1000, 0000>>), BNeg(Dec(<<621, 3559, 6800>>)))

windows_file(num) ==
    epoch2time(num, Dec(<<1000, 0000>>), BNeg(Dec(<<116, 4447, 3600>>)))
to_windows_file(ndt) ==
    time2epoch(ndt, Dec(<<1000, 0000>>), BNeg(Dec(<<116, 4447, 3600>>)))

UniformFormats ==
    {"apfs", "chrome", "cocoa", "java", "mozilla", "symbian", "unix",
     "uuid_v1", "windows_date", "windows_file"}

\* the forward function of format f
Forward(f, num) ==
    CASE f = "apfs" -> apfs(num)
      [] f = "chrome" -> chrome(num)
      [] f = "cocoa" -> cocoa(num)
      [] f = "java" -> java(num)
      [] f = "mozilla" -> mozilla(num)
      [] f = "symbian" -> symbian(num)
      [] f = "unix" -> unix(num)
      [] f = "uuid_v1" -> uuid_v1(num)
      [] f = "windows_date" -> windows_date(num)
      [] f = "windows_file" -> windows_file(num)

\* the backward function of format f
Backward(f, ndt) ==
    CASE f = "apfs" -> to_apfs(ndt)
      [] f = "chrome" -> to_chrome(ndt)
      [] f = "cocoa" -> to_cocoa(ndt)
      [] f = "java" -> to_java(ndt)
      [] f = "mozilla" -> to_mozilla(ndt)
      [] f = "symbian" -> to_symbian(ndt)
      [] f = "unix" -> to_unix(ndt)
      [] f = "uuid_v1" -> to_uuid_v1(ndt)
      [] f = "windows_date" -> to_windows_date(ndt)
      [] f = "windows_file" -> to_windows_file(ndt)

(***************************************************************************)
(* The documented format table (spec section 6, the doc comments of        *)
(* lib.rs): ticks per second, the shift in seconds, the reference date.    *)
(* The inputs and the properties are stated with it, the model above does  *)
(* not use it.                                                             *)
(***************************************************************************)
DocDivisor(f) ==
    CASE f \in {"cocoa", "unix"} -> One
      [] f = "java" -> Dec(<<1000>>)
      [] f \in {"chrome", "mozilla", "symbian"} -> Dec(<<100, 0000>>)
      [] f \in {"uuid_v1", "windows_date", "windows_file"} -> Dec(<<1000, 0000>>)
      [] f = "apfs" -> Dec(<<10, 0000, 0000>>)

DocOffset(f) ==
    CASE f \in {"apfs", "java", "mozilla", "unix"} -> Zero
      [] f \in {"chrome", "windows_file"} -> BNeg(Dec(<<116, 4447, 3600>>))
      [] f = "cocoa" -> Dec(<<9, 7830, 7200>>)
      [] f = "symbian" -> BNeg(Dec(<<621, 6721, 9200>>))
      [] f = "uuid_v1" -> BNeg(Dec(<<122, 1929, 2800>>))
      [] f = "windows_date" -> BNeg(Dec(<<621, 3559, 6800>>))

DocReference(f) ==
    CASE f \in {"apfs", "java", "mozilla", "unix"} -> <<1970, 1, 1>>
      [] f \in {"chrome", "windows_file"} -> <<1601, 1, 1>>
      [] f = "cocoa" -> <<2001, 1, 1>>
      [] f = "symbian" -> <<0, 1, 1>>
      [] f = "uuid_v1" -> <<1582, 10, 15>>
      [] f = "windows_date" -> <<1, 1, 1>>

(***************************************************************************)
(* The proleptic Gregorian calendar, as the properties state it: counted   *)
(* from year lengths and month lengths, not as chrono computes it.         *)
(***************************************************************************)
GregorianLeap(y) == y % 4 = 0 /\ (y % 100 # 0 \/ y % 400 = 0)

\* days from 0001-01-01 to y-01-01
GregorianDaysBeforeYear(y) ==
    365 * (y - 1) + (y - 1) \div 4 - (y - 1) \div 100 + (y - 1) \div 400

GregorianMonthLength(y, m) ==
    IF m = 2 THEN (IF GregorianLeap(y) THEN 29 ELSE 28)
    ELSE <<31, 0, 31, 30, 31, 30, 31, 31, 30, 31, 30, 31>>[m]

GregorianDaysBeforeMonth(y, m) ==
    <<0, 31, 59, 90, 120, 151, 181, 212, 243, 273, 304, 334>>[m]
    + (IF m > 2 /\ GregorianLeap(y) THEN 1 ELSE 0)

\* days from 1970-01-01 to y-m-d
GregorianDay(y, m, d) ==
    GregorianDaysBeforeYear(y) + GregorianDaysBeforeMonth(y, m) + (d - 1)
    - (GregorianDaysBeforeYear(1970))

\* seconds from 1970-01-01 00:00:00 to the datetime
GregorianSeconds(ndt) ==
    BAdd(BMulSmall(Int2Big(GregorianDay(ndt.year, ndt.month, ndt.day)), 86400),
         Int2Big(ndt.secs))

\* the first and the last second of the years MIN_YEAR .. MAX_YEAR
MinSeconds == BMulSmall(Int2Big(GregorianDay(MIN_YEAR, 1, 1)), 86400)
MaxSeconds ==
    BAdd(BMulSmall(Int2Big(GregorianDay(MAX_YEAR, 12, 31)), 86400), Int2Big(86399))

(***************************************************************************)
(* The caller.                                                             *)
(*   pc    "idle", then "called" after a first call, then "back" after the *)
(*         call that takes the first call's result                         *)
(*   fn    the function called last                                        *)
(*   arg   its argument                                                    *)
(*   ret   its result                                                      *)
(*   orig  the argument of the first call, kept for the round trip         *)
(*   steps the number of calls of plus_month the last call made            *)
(*   overflow_checks  whether the build panics on integer overflow (debug) *)
(*         or wraps (release)                                              *)
(***************************************************************************)
VARIABLES pc, fn, arg, ret, orig, steps, overflow_checks

vars == <<pc, fn, arg, ret, orig, steps, overflow_checks>>

Init ==
    /\ pc = "idle"
    /\ fn = "none"
    /\ arg = Zero
    /\ ret = None
    /\ orig = Zero
    /\ steps = 0
    /\ overflow_checks \in BOOLEAN

(***************************************************************************)
(* Inputs of the uniform formats: ticks within Delta of a whole second     *)
(* k * d, for the seconds k that matter (the reference instant, the doc    *)
(* examples, both ends of the representable years), of +-10^15 and of the  *)
(* ends of i64.                                                            *)
(***************************************************************************)
Delta == 1

EXAMPLE_SECONDS == Dec(<<12, 3456, 7890>>)
TEN_POW_15 == Dec(<<1000, 0000, 0000, 0000>>)

AnchorSeconds(f) ==
    {Zero, One, BSub(EXAMPLE_SECONDS, DocOffset(f)), BNeg(EXAMPLE_SECONDS),
     BSub(MaxSeconds, DocOffset(f)), BSub(BAdd(MaxSeconds, One), DocOffset(f)),
     BSub(MinSeconds, DocOffset(f)), BSub(BSub(MinSeconds, One), DocOffset(f))}

Ticks(f) ==
    {x \in {BAdd(BMul(k, DocDivisor(f)), Int2Big(r)) :
                k \in AnchorSeconds(f), r \in -Delta..Delta}
           \cup {BAdd(e, Int2Big(r)) :
                e \in {TEN_POW_15, BNeg(TEN_POW_15)}, r \in -Delta..Delta}
           \cup {BSub(I64_MAX, Int2Big(r)) : r \in 0..Delta}
           \cup {BAdd(I64_MIN, Int2Big(r)) : r \in 0..Delta} :
        FitsI64(x)}

\* a forward conversion of a tick count
CallForward ==
    /\ pc = "idle"
    /\ \E f \in UniformFormats : \E num \in Ticks(f) :
        /\ fn' = f
        /\ arg' = num
        /\ ret' = Forward(f, num)
        /\ orig' = num
    /\ pc' = "called"
    /\ UNCHANGED <<steps, overflow_checks>>

\* the backward conversion of the datetime the forward conversion returned
CallBackward ==
    /\ pc = "called"
    /\ fn \in UniformFormats
    /\ IsSome(ret)
    /\ fn' = fn
    /\ arg' = ret.val
    /\ ret' = Backward(fn, ret.val)
    /\ pc' = "back"
    /\ UNCHANGED <<orig, steps, overflow_checks>>

InitUniform == Init /\ overflow_checks = FALSE
NextUniform == CallForward \/ CallBackward
SpecUniform == InitUniform /\ [][NextUniform]_vars

(***************************************************************************)
(* Google Calendar. The inputs of google_calendar are second counts around *)
(* the documented examples, around the flat encodings of chosen dates,     *)
(* around the counts whose month count leaves the 32-bit year arithmetic   *)
(* and at the ends of i64; the inputs of to_google_calendar are civil      *)
(* datetimes from 1970 on with a zero sub-second fraction.                 *)
(***************************************************************************)
\* the flat positional encoding of a civil datetime (spec section 4.2)
GoogleEncoding(y, m, d, secs) ==
    BAdd(BMulSmall(Int2Big(((y - 1970) * 12 + (m - 1)) * 32 + d), 86400),
         Int2Big(secs))

\* the seconds of 2^32 years and of 2^31 - 1 years of 32-day months
TWO_POW_32_YEARS == Dec(<<14, 2496, 7069, 5976, 9600>>)
I32_MAX_YEARS == Dec(<<7, 1248, 3534, 4670, 7200>>)

GoogleAnchors ==
    {Zero, Dec(<<12, 9789, 9090>>), Dec(<<12, 9789, 9090, 0000>>),
     GoogleEncoding(2009, 3, 31, 0), GoogleEncoding(2009, 2, 28, 86399),
     GoogleEncoding(1970, 1, 1, 0), GoogleEncoding(1969, 12, 31, 0),
     GoogleEncoding(MAX_YEAR, 12, 31, 86399), GoogleEncoding(MAX_YEAR + 1, 1, 1, 0),
     GoogleEncoding(MIN_YEAR, 1, 1, 0),
     TWO_POW_32_YEARS, I32_MAX_YEARS, BNeg(I32_MAX_YEARS)}

GoogleSeconds ==
    {BAdd(a, Int2Big(r)) : a \in GoogleAnchors, r \in -Delta..Delta}
    \cup {BSub(I64_MAX, Int2Big(r)) : r \in 0..Delta}
    \cup {BAdd(I64_MIN, Int2Big(r)) : r \in 0..Delta}

GoogleYears == {1970, 2009}
GoogleDays == {1, 28, 29, 30, 31}
GoogleTimes == {0, 84690}

GoogleDatetimes ==
    {[year |-> y, month |-> m, day |-> d, secs |-> t, nanos |-> 0] :
        y \in GoogleYears, m \in 1..12, d \in GoogleDays, t \in GoogleTimes}

\* google_calendar of a second count
CallGoogleCalendar ==
    /\ pc = "idle"
    /\ \E num \in GoogleSeconds :
        /\ arg' = num
        /\ ret' = google_calendar(num, overflow_checks)
        /\ orig' = num
    /\ fn' = "google_calendar"
    /\ pc' = "called"
    /\ UNCHANGED <<steps, overflow_checks>>

\* to_google_calendar of the datetime google_calendar returned
EncodeDecoded ==
    /\ pc = "called"
    /\ fn = "google_calendar"
    /\ IsSome(ret)
    /\ fn' = "to_google_calendar"
    /\ arg' = ret.val
    /\ ret' = to_google_calendar(ret.val)
    /\ pc' = "back"
    /\ UNCHANGED <<orig, steps, overflow_checks>>

\* to_google_calendar of a civil datetime
CallToGoogleCalendar ==
    /\ pc = "idle"
    /\ \E ndt \in GoogleDatetimes :
        /\ IsSome(from_ymd_opt(ndt.year, ndt.month, ndt.day))
        /\ arg' = ndt
        /\ ret' = to_google_calendar(ndt)
        /\ orig' = ndt
    /\ fn' = "to_google_calendar"
    /\ pc' = "called"
    /\ UNCHANGED <<steps, overflow_checks>>

\* google_calendar of the second count to_google_calendar returned
DecodeEncoded ==
    /\ pc = "called"
    /\ fn = "to_google_calendar"
    /\ fn' = "google_calendar"
    /\ arg' = ret
    /\ ret' = google_calendar(ret, overflow_checks)
    /\ pc' = "back"
    /\ UNCHANGED <<orig, steps, overflow_checks>>

NextGoogle ==
    CallGoogleCalendar \/ EncodeDecoded \/ CallToGoogleCalendar \/ DecodeEncoded
SpecGoogle == Init /\ [][NextGoogle]_vars

(***************************************************************************)
(* Properties of the uniform formats. They are stated with the documented  *)
(* table and the Gregorian day count above.                                *)
(***************************************************************************)
BAbs(a0) == With(a0, LAMBDA a : Mk(1, a.m))

\* the seconds from 1970-01-01 00:00:00 to the reference instant of format f
ReferenceSeconds(f) ==
    BMulSmall(Int2Big(GregorianDay(DocReference(f)[1], DocReference(f)[2],
                                   DocReference(f)[3])),
              86400)

\* a second count inside the years MIN_YEAR .. MAX_YEAR
InYears(t0) == With(t0, LAMBDA t : BLe(MinSeconds, t) /\ BLe(t, MaxSeconds))

\* the fields of a datetime are those of a Gregorian date and a time of day
GregorianValid(ndt) ==
    /\ ndt.month \in 1..12
    /\ ndt.day >= 1
    /\ ndt.day <= GregorianMonthLength(ndt.year, ndt.month)
    /\ ndt.secs \in 0..86399

\* the whole seconds of a tick count and the Unix seconds they stand for
DocQuotient(f, t) == TruncDiv(t, DocDivisor(f))
DocUnixSeconds(f, t) == BAdd(DocQuotient(f, t), DocOffset(f))

\* C1: for a second- or millisecond-scale format and a tick count t with
\* |t| <= 10^15 whose forward conversion succeeded, the backward conversion
\* of the result gives t back.
C1_RoundTrip ==
    (/\ pc = "back"
     /\ fn \in UniformFormats
     /\ DocDivisor(fn) \in {One, Dec(<<1000>>)}
     /\ BLe(BAbs(orig), TEN_POW_15))
    => ret = orig

\* C2: for a whole-second tick count t = k * d whose instant, the reference
\* instant of the format plus k seconds, lies in the supported years, the
\* forward conversion returns that instant of the proleptic Gregorian
\* calendar, with a zero sub-second fraction.
C2_ReferenceInstant ==
    (/\ pc = "called"
     /\ fn \in UniformFormats
     /\ TruncRem(arg, DocDivisor(fn)) = Zero
     /\ InYears(BAdd(ReferenceSeconds(fn), DocQuotient(fn, arg))))
    => /\ IsSome(ret)
       /\ GregorianValid(ret.val)
       /\ GregorianSeconds(ret.val)
              = BAdd(ReferenceSeconds(fn), DocQuotient(fn, arg))
       /\ ret.val.nanos = 0

C2_Witness ==
    /\ pc = "called"
    /\ fn = "uuid_v1"
    /\ arg # Zero
    /\ TruncRem(arg, DocDivisor(fn)) = Zero
    /\ IsSome(ret)
    /\ ret.val.year = 2009

\* C3: when q + s overflows i64 or lies outside the supported years, the
\* forward conversion returns None.
C3_OutOfRangeIsNone ==
    (/\ pc = "called"
     /\ fn \in UniformFormats
     /\ \/ ~FitsI64(DocUnixSeconds(fn, arg))
        \/ ~InYears(DocUnixSeconds(fn, arg)))
    => IsNone(ret)

\* the sum overflows for cocoa, the sum is a second past the last year for
\* windows_date
C3_Witness ==
    /\ pc = "called"
    /\ \/ fn = "cocoa" /\ ~FitsI64(DocUnixSeconds(fn, arg))
       \/ /\ fn = "windows_date"
          /\ DocUnixSeconds(fn, arg) = BAdd(MaxSeconds, One)
    /\ IsNone(ret)

\* C10: the forward conversion fails only when q + s overflows or lies
\* outside the supported years; otherwise it returns a datetime whose
\* nanoseconds are below 10^9 and equal (t mod d) * (10^9 / d).
C10_FailsOnlyOutOfRange ==
    (pc = "called" /\ fn \in UniformFormats)
    => IF \/ ~FitsI64(DocUnixSeconds(fn, arg))
          \/ ~InYears(DocUnixSeconds(fn, arg))
       THEN IsNone(ret)
       ELSE /\ IsSome(ret)
            /\ ret.val.nanos \in 0..999999999
            /\ Int2Big(ret.val.nanos)
                   = BMul(TruncRem(arg, DocDivisor(fn)),
                          TruncDiv(NANOS_PER_SEC, DocDivisor(fn)))

(***************************************************************************)
(* Properties of google_calendar and to_google_calendar.                   *)
(***************************************************************************)
\* C4: for a second count n >= 0 for which google_calendar returned a
\* datetime, to_google_calendar of that datetime is n.
C4_EncodeInvertsDecode ==
    (pc = "back" /\ fn = "to_google_calendar" /\ BLe(Zero, orig)) => ret = orig

\* C5: for a valid civil datetime dt from 1970-01-01 00:00:00 on, with a zero
\* sub-second fraction, google_calendar of to_google_calendar(dt) is dt.
C5_DecodeInvertsEncode ==
    (pc = "back" /\ fn = "google_calendar") => ret = Some(orig)

\* the years google_calendar adds to the year of its starting date, which is
\* 1969 or 1970
GoogleYearsAdded(n) ==
    TruncDiv(TruncDiv(TruncDiv(n, SECS_PER_DAY), Int2Big(32)), Int2Big(12))

\* C6: google_calendar ends with a datetime or with None, never with a panic;
\* when the count of years does not fit i32 or the year it leads to is not
\* representable, it ends with None.
C6_NoneWhenOutOfRange ==
    (pc = "called" /\ fn = "google_calendar")
    => /\ ~IsPanic(ret)
       /\ (\/ ~FitsI32(GoogleYearsAdded(arg))
           \/ BLt(Int2Big(MAX_YEAR), BAdd(Int2Big(1969), GoogleYearsAdded(arg)))
           \/ BLt(BAdd(Int2Big(1970), GoogleYearsAdded(arg)), Int2Big(MIN_YEAR)))
          => IsNone(ret)

(***************************************************************************)
(* ICQ. The inputs of icq are the doubles of the documented examples and   *)
(* the quarter days around chosen whole day counts: zero, an example, the  *)
(* limit MAX_DAYS on both sides of zero, the first and the last            *)
(* representable date, and 2^64.                                           *)
(***************************************************************************)
\* 39857.980209, 41056.275208, 398570000.980209 and 123456789012.0 as the
\* doubles the compiler reads them as
IcqExamples ==
    {[n |-> Dec(<<684, 7548, 8592, 9081>>), k |-> 34],
     [n |-> Dec(<<5642, 7314, 9804, 5939>>), k |-> 37],
     [n |-> Dec(<<3343, 4474, 9878, 2589>>), k |-> 23],
     [n |-> Dec(<<1234, 5678, 9012>>), k |-> 0]}

\* the days from 1899-12-30 to 1970-01-01
ICQ_ANCHOR_DAY == GregorianDay(1899, 12, 30)

IcqAnchors ==
    {Zero, Int2Big(39857), Dec(<<1067, 5199, 1167>>), BNeg(Dec(<<1067, 5199, 1167>>)),
     Dec(<<1067, 5199, 1168>>), BNeg(Dec(<<1067, 5199, 1168>>)),
     Int2Big(GregorianDay(MAX_YEAR, 12, 31) - ICQ_ANCHOR_DAY),
     Int2Big(GregorianDay(MIN_YEAR, 1, 1) - ICQ_ANCHOR_DAY),
     BMul(TwoPow32, TwoPow32), BNeg(BMul(TwoPow32, TwoPow32))}

IcqDays ==
    IcqExamples
    \cup {Round53(BAdd(BMulSmall(a, 4), Int2Big(q)), 2) :
              a \in IcqAnchors, q \in (-4 * Delta)..(4 * Delta)}

\* icq of a day count
CallIcq ==
    /\ pc = "idle"
    /\ \E days \in IcqDays :
        /\ arg' = days
        /\ ret' = icq(days)
        /\ orig' = days
    /\ fn' = "icq"
    /\ pc' = "called"
    /\ UNCHANGED <<steps, overflow_checks>>

\* to_icq of the datetime icq returned
CallToIcq ==
    /\ pc = "called"
    /\ fn = "icq"
    /\ IsSome(ret)
    /\ fn' = "to_icq"
    /\ arg' = ret.val
    /\ ret' = to_icq(ret.val)
    /\ pc' = "back"
    /\ UNCHANGED <<orig, steps, overflow_checks>>

NextIcq == CallIcq \/ CallToIcq
SpecIcq == Init /\ [][NextIcq]_vars

\* the whole-day part of a day count, toward zero
IcqWholeDays(x) == Mk(x.n.s, MShr(x.n.m, x.k))

\* C7: icq never panics, and it returns None when the whole-day part exceeds
\* MAX_DAYS or leads from 1899-12-30 out of the representable dates.
C7_NoneNeverPanic ==
    (pc = "called" /\ fn = "icq")
    => /\ ~IsPanic(ret)
       /\ (\/ BLt(Dec(<<1067, 5199, 1167>>), IcqWholeDays(arg))
           \/ BLt(Int2Big(GregorianDay(MAX_YEAR, 12, 31) - ICQ_ANCHOR_DAY),
                  IcqWholeDays(arg))
           \/ BLt(IcqWholeDays(arg),
                  Int2Big(GregorianDay(MIN_YEAR, 1, 1) - ICQ_ANCHOR_DAY)))
          => IsNone(ret)

(***************************************************************************)
(* The calendar helpers. ndays_in_month is called on every month of chosen *)
(* years, plus_month and plus_months on chosen datetimes; the month counts *)
(* are small ones of either sign and the count of 2^31 - 1 years, which    *)
(* overflows the year sum.                                                 *)
(***************************************************************************)
CalYears ==
    {MIN_YEAR, -4, -1, 0, 1, 1900, 2000, 2003, 2004, 2100, MAX_YEAR - 1, MAX_YEAR}

CalDates ==
    {[year |-> y, month |-> m, day |-> d] :
        y \in {MIN_YEAR, 2003, 2004, MAX_YEAR - 1, MAX_YEAR},
        m \in {1, 2, 12},
        d \in {1, 29, 31}}

CalDatetimes ==
    {[year |-> c.year, month |-> c.month, day |-> c.day,
      secs |-> 84690, nanos |-> 57000000] :
        c \in {e \in CalDates : IsSome(from_ymd_opt(e.year, e.month, e.day))}}

CalMonths ==
    {Int2Big(n) : n \in {-12, -1, 0, 1, 11, 12, 13}}
    \cup {BMulSmall(I32_MAX, 12)}

CallNdaysInMonth ==
    /\ pc = "idle"
    /\ \E year \in CalYears, month \in 1..12 :
        /\ arg' = [year |-> year, month |-> month]
        /\ ret' = ndays_in_month(year, month)
    /\ fn' = "ndays_in_month"
    /\ pc' = "called"
    /\ UNCHANGED <<orig, steps, overflow_checks>>

CallPlusMonth ==
    /\ pc = "idle"
    /\ \E ndt \in CalDatetimes :
        /\ arg' = ndt
        /\ ret' = plus_month(ndt)
    /\ fn' = "plus_month"
    /\ pc' = "called"
    /\ UNCHANGED <<orig, steps, overflow_checks>>

CallPlusMonths ==
    /\ pc = "idle"
    /\ \E ndt \in CalDatetimes, months \in CalMonths :
        /\ arg' = [ndt |-> ndt, months |-> months]
        /\ ret' = plus_months_run(ndt, months, overflow_checks).out
        /\ steps' = plus_months_run(ndt, months, overflow_checks).steps
    /\ fn' = "plus_months"
    /\ pc' = "called"
    /\ UNCHANGED <<orig, overflow_checks>>

NextCal == CallNdaysInMonth \/ CallPlusMonth \/ CallPlusMonths
SpecCal == Init /\ [][NextCal]_vars

\* C8: ndays_in_month(y, m) is the Gregorian length of month m of year y, and
\* None exactly when the first day of the following month falls in a year
\* past MAX_YEAR.
C8_GregorianLength ==
    (pc = "called" /\ fn = "ndays_in_month")
    => IF arg.month = 12 /\ arg.year + 1 > MAX_YEAR
       THEN IsNone(ret)
       ELSE ret = Some(GregorianMonthLength(arg.year, arg.month))

C8_Witness ==
    /\ pc = "called"
    /\ fn = "ndays_in_month"
    /\ arg = [year |-> 2000, month |-> 2]
    /\ ret = Some(29)

\* the day of dt exists in the same month of the following year
ValidNextYear(ndt) ==
    /\ ndt.year + 1 <= MAX_YEAR
    /\ ndt.day <= GregorianMonthLength(ndt.year + 1, ndt.month)

\* C9: plus_months(dt, 12), for a dt whose day exists in the same month of
\* the following year, is dt with the year one more and nothing else changed,
\* reached without a single-month step; plus_months(dt, 0) is dt.
C9_TwelveMonthsIsOneYear ==
    (pc = "called" /\ fn = "plus_months")
    => /\ (arg.months = Int2Big(12) /\ ValidNextYear(arg.ndt))
          => /\ ret = Some([arg.ndt EXCEPT !.year = @ + 1])
             /\ steps = 0
       /\ arg.months = Zero => (ret = Some(arg.ndt) /\ steps = 0)

C9_Witness ==
    /\ pc = "called"
    /\ fn = "plus_months"
    /\ arg.months = Int2Big(12)
    /\ ValidNextYear(arg.ndt)
    /\ IsSome(ret)
    /\ ret.val.year = arg.ndt.year + 1
    /\ ret.val.day = 31

\* the month index year * 12 + month of a datetime
MonthIndex(ndt) == Int2Big(ndt.year * 12 + ndt.month)

\* C11: for a month count n of either sign and a dt with day of month <= 28
\* for which plus_months(dt, n) succeeded, the result lies n calendar months
\* from dt (its month index is dt's plus n), with the day and the time of day
\* unchanged, reached by |n mod 12| single-month steps.
C11_ExactlyNMonths ==
    (/\ pc = "called"
     /\ fn = "plus_months"
     /\ arg.ndt.day <= 28
     /\ IsSome(ret))
    => /\ MonthIndex(ret.val) = BAdd(MonthIndex(arg.ndt), arg.months)
       /\ ret.val.day = arg.ndt.day
       /\ ret.val.secs = arg.ndt.secs
       /\ ret.val.nanos = arg.ndt.nanos
       /\ Int2Big(steps) = BAbs(TruncRem(arg.months, Int2Big(12)))

(***************************************************************************)
(* The whole caller.                                                       *)
(***************************************************************************)
Next == NextUniform \/ NextGoogle \/ NextIcq \/ NextCal
Spec == Init /\ [][Next]_vars

====
